---- MODULE Spec2Model ----
(***************************************************************************)
(* Left-leaning red-black tree of src/src/llrb.rs: LLRBTree::insert and    *)
(* LLRBTree::search over Option<Box<Node>> links.                          *)
(*                                                                         *)
(* An Option is a sequence of length 0 (None) or 1 (Some(x)).  A Node is a *)
(* record [key, val, color, left, right]; color TRUE is RED, FALSE BLACK.  *)
(*                                                                         *)
(* Spec  runs insert as the recursion of _insert, one frame at a time.     *)
(* Spec7 inserts one set of pairs into two trees in two orders.            *)
(***************************************************************************)
EXTENDS Integers, Sequences, FiniteSets

\* ---------------------------------------------------------------- bounds
MaxKey == 5
MaxVal == 2
MaxKey7 == 4
MaxVal7 == 2
MaxPairs == 4

Keys == 1..MaxKey
Vals == 1..MaxVal
\* keys looked up: every key that can be inserted, and one below and one above
Probes == 0..(MaxKey + 1)
Pairs7 == (1..MaxKey7) \X (1..MaxVal7)
Probes7 == 0..(MaxKey7 + 1)

VARIABLES
    root,      \* LLRBTree.root
    pc,        \* where the running insert is: idle, down, fix, ret, panicked
    key, val,  \* the arguments k, v of the running insert
    h,         \* the argument h of the _insert call about to run
    stack,     \* the suspended _insert frames: [node, dir]
    cur,       \* the local `node` of the frame about to run its fix-up
    res,       \* the value the last finished _insert call returned
    did,       \* which of rotate-left, rotate-right, flip the last fix-up applied
    fault,     \* a panic (unreachable!() or unwrap() on None) was hit
    ref,       \* reference map: key -> Option of the last value inserted for it
    pairs, remA, remB, rootA, rootB   \* Spec7: the set, what is left of it in each order, the two trees

vars == <<root, pc, key, val, h, stack, cur, res, did, fault, ref,
          pairs, remA, remB, rootA, rootB>>

\* ------------------------------------------------------------ Option, Node
None == <<>>
Some(x) == <<x>>
unwrap(o) == o[1]

Node_new(k, v) ==
    [key |-> k, val |-> v, color |-> TRUE, left |-> None, right |-> None]

\* Ord::cmp on the integer keys
cmp(a, b) == IF a < b THEN "Less" ELSE IF a = b THEN "Equal" ELSE "Greater"

\* ------------------------------------------------------------ private fns
\* mutant: the right child is not required to exist
_should_flip_color_anyright(node) ==
    IF node.left # None
    THEN unwrap(node.left).color /\ (node.right = None \/ unwrap(node.right).color)
    ELSE FALSE

_should_flip_color(node) ==
    IF node.left # None /\ node.right # None
    THEN unwrap(node.left).color /\ unwrap(node.right).color
    ELSE FALSE

\* the unreachable!() arms of _flip_color
_flip_color_panics(hn) == hn.left = None \/ hn.right = None

\* mutant: the node's own color is not inverted
_flip_color_children(hn) ==
    [hn EXCEPT !.left = Some([unwrap(@) EXCEPT !.color = ~@]),
               !.right = Some([unwrap(@) EXCEPT !.color = ~@])]

_flip_color(hn) ==
    [hn EXCEPT !.color = ~@,
               !.left = Some([unwrap(@) EXCEPT !.color = ~@]),
               !.right = Some([unwrap(@) EXCEPT !.color = ~@])]

\* mutant: the arm for an absent left child is missing
_should_rotate_left_noarm(left, right) ==
    IF right # None /\ left # None
    THEN unwrap(right).color /\ ~unwrap(left).color
    ELSE FALSE

\* mutant: the left child's color is not looked at
_should_rotate_left_anyleft(left, right) ==
    IF right # None THEN unwrap(right).color ELSE FALSE

_should_rotate_left(left, right) ==
    IF right # None /\ left = None THEN unwrap(right).color
    ELSE IF right # None /\ left # None
         THEN unwrap(right).color /\ ~unwrap(left).color
         ELSE FALSE

\* mutant: the left child's left child is not looked at
_should_rotate_right_nochain(left) ==
    IF left = None THEN FALSE ELSE unwrap(left).color

_should_rotate_right(left) ==
    IF left = None THEN FALSE
    ELSE IF unwrap(left).left = None THEN FALSE
         ELSE unwrap(left).color /\ unwrap(unwrap(left).left).color

\* right.unwrap() of _rotate_left
_rotate_left_panics(node_h) == node_h.right = None

\* mutant: the two subtrees of node_x are reattached the wrong way round
_rotate_left_swapped(node_h) ==
    LET node_x == unwrap(node_h.right)
        new_h == [key |-> node_h.key, val |-> node_h.val, color |-> TRUE,
                  left |-> node_h.left, right |-> node_x.right]
    IN [key |-> node_x.key, val |-> node_x.val, color |-> node_h.color,
        left |-> Some(new_h), right |-> node_x.left]

_rotate_left(node_h) ==
    LET node_x == unwrap(node_h.right)
        new_h == [key |-> node_h.key, val |-> node_h.val, color |-> TRUE,
                  left |-> node_h.left, right |-> node_x.left]
    IN [key |-> node_x.key, val |-> node_x.val, color |-> node_h.color,
        left |-> Some(new_h), right |-> node_x.right]

\* left.unwrap() of _rotate_right
_rotate_right_panics(node_h) == node_h.left = None

\* mutant: the left subtree of node_x is dropped
_rotate_right_dropped(node_h) ==
    LET node_x == unwrap(node_h.left)
        new_h == [key |-> node_h.key, val |-> node_h.val, color |-> TRUE,
                  left |-> node_x.right, right |-> node_h.right]
    IN [key |-> node_x.key, val |-> node_x.val, color |-> node_h.color,
        left |-> None, right |-> Some(new_h)]

_rotate_right(node_h) ==
    LET node_x == unwrap(node_h.left)
        new_h == [key |-> node_h.key, val |-> node_h.val, color |-> TRUE,
                  left |-> node_x.right, right |-> node_h.right]
    IN [key |-> node_x.key, val |-> node_x.val, color |-> node_h.color,
        left |-> node_x.left, right |-> Some(new_h)]

\* _insert, on entry to a node: the flip made before the key comparison.
\* [panic, node, flip]
_insert_entry(node) ==
    IF _should_flip_color(node)
    THEN IF _flip_color_panics(node)
         THEN [panic |-> TRUE, node |-> node, flip |-> TRUE]
         ELSE [panic |-> FALSE, node |-> _flip_color(node), flip |-> TRUE]
    ELSE [panic |-> FALSE, node |-> node, flip |-> FALSE]

\* mutant: no flip after the rotations
_insert_exit_noflip(node) == node

\* the last step of the fix-up: the flip made after the rotations
_insert_exit_flip(node) ==
    IF _should_flip_color(node) THEN _flip_color(node) ELSE node

\* _insert, after the recursive call is reattached: rotate left, rotate right,
\* flip, in this order.  [panic, node, left, right, flip]
_insert_fixup(node) ==
    LET doL == _should_rotate_left(node.left, node.right)
        panL == doL /\ _rotate_left_panics(node)
        n1 == IF doL THEN _rotate_left(node) ELSE node
        doR == _should_rotate_right(n1.left)
        panR == doR /\ _rotate_right_panics(n1)
        n2 == IF doR THEN _rotate_right(n1) ELSE n1
        doF == _should_flip_color(n2)
        panF == doF /\ _flip_color_panics(n2)
    IN IF panL
       THEN [panic |-> TRUE, node |-> node, left |-> TRUE, right |-> FALSE, flip |-> FALSE]
       ELSE IF panR
       THEN [panic |-> TRUE, node |-> n1, left |-> doL, right |-> TRUE, flip |-> FALSE]
       ELSE IF panF
       THEN [panic |-> TRUE, node |-> n2, left |-> doL, right |-> doR, flip |-> TRUE]
       ELSE [panic |-> FALSE, node |-> _insert_exit_flip(n2),
             left |-> doL, right |-> doR, flip |-> doF]

\* mutant: the root keeps the color _insert returned it with
insert_root_ascolored(r) == r

\* insert, after _insert returned: the root's color is forced to BLACK
insert_root(r) ==
    IF r # None THEN Some([unwrap(r) EXCEPT !.color = FALSE]) ELSE r

\* mutant: Less descends to the left, Greater to the right
RECURSIVE search_inverted(_, _)
search_inverted(x, k) ==
    IF x = None THEN None
    ELSE LET node == unwrap(x)
             c == cmp(node.key, k)
         IN IF c = "Equal" THEN Some(node.val)
            ELSE IF c = "Less" THEN search_inverted(node.left, k)
            ELSE search_inverted(node.right, k)

\* search: the descent loop
RECURSIVE search(_, _)
search(x, k) ==
    IF x = None THEN None
    ELSE LET node == unwrap(x)
             c == cmp(node.key, k)
         IN IF c = "Equal" THEN Some(node.val)
            ELSE IF c = "Less" THEN search(node.right, k)
            ELSE search(node.left, k)

\* ------------------------------------------------------------ insert, stepwise
NoFix == [left |-> FALSE, right |-> FALSE, flip |-> FALSE]
NoFrame == Node_new(0, 0)

Init ==
    /\ root = None
    /\ pc = "idle"
    /\ key = 0 /\ val = 0
    /\ h = None
    /\ stack = <<>>
    /\ cur = NoFrame
    /\ res = None
    /\ did = NoFix
    /\ fault = FALSE
    /\ ref = [k \in Keys |-> None]
    /\ pairs = {} /\ remA = {} /\ remB = {} /\ rootA = None /\ rootB = None

Extra7 == <<pairs, remA, remB, rootA, rootB>>

\* insert(k, v) is called: _insert(self.root.clone(), k, v) is about to run
Insert(k, v) ==
    /\ pc = "idle"
    /\ pc' = "down"
    /\ key' = k /\ val' = v
    /\ h' = root
    /\ stack' = <<>>
    /\ cur' = NoFrame
    /\ res' = None
    /\ did' = NoFix
    /\ UNCHANGED <<root, fault, ref, Extra7>>

\* _insert(None, k, v): the new RED node is returned
VisitNone ==
    /\ pc = "down"
    /\ h = None
    /\ res' = Some(Node_new(key, val))
    /\ pc' = "ret"
    /\ did' = NoFix
    /\ UNCHANGED <<root, key, val, h, stack, cur, fault, ref, Extra7>>

\* _insert(Some(boxed_h), k, v) up to the recursive call: flip on entry, then
\* the comparison: Equal overwrites the value and goes on to the fix-up, Less
\* and Greater call _insert on the right and left child
VisitSome ==
    /\ pc = "down"
    /\ h # None
    /\ LET e == _insert_entry(unwrap(h))
           node == e.node
           c == cmp(node.key, key)
       IN IF e.panic
          THEN /\ fault' = TRUE
               /\ pc' = "panicked"
               /\ UNCHANGED <<h, stack, cur>>
          ELSE IF c = "Equal"
          THEN /\ cur' = [node EXCEPT !.val = val]
               /\ pc' = "fix"
               /\ h' = None
               /\ UNCHANGED <<stack, fault>>
          ELSE /\ stack' = <<[node |-> node, dir |-> c]>> \o stack
               /\ h' = IF c = "Less" THEN node.right ELSE node.left
               /\ pc' = "down"
               /\ UNCHANGED <<cur, fault>>
    /\ UNCHANGED <<root, key, val, res, did, ref, Extra7>>

\* the fix-up of the frame whose child is reattached, and its return
FixUp ==
    /\ pc = "fix"
    /\ LET f == _insert_fixup(cur)
       IN IF f.panic
          THEN /\ fault' = TRUE
               /\ pc' = "panicked"
               /\ UNCHANGED <<res, did>>
          ELSE /\ res' = Some(f.node)
               /\ did' = [left |-> f.left, right |-> f.right, flip |-> f.flip]
               /\ pc' = "ret"
               /\ UNCHANGED fault
    /\ UNCHANGED <<root, key, val, h, stack, cur, ref, Extra7>>

\* a recursive call returns into the suspended frame: node.right = ... or
\* node.left = ...
Return ==
    /\ pc = "ret"
    /\ stack # <<>>
    /\ LET fr == Head(stack)
       IN cur' = IF fr.dir = "Less"
                 THEN [fr.node EXCEPT !.right = res]
                 ELSE [fr.node EXCEPT !.left = res]
    /\ stack' = Tail(stack)
    /\ pc' = "fix"
    /\ UNCHANGED <<root, key, val, h, res, did, fault, ref, Extra7>>

\* the outermost _insert returns into insert: self.root is assigned and its
\* color forced to BLACK
Finish ==
    /\ pc = "ret"
    /\ stack = <<>>
    /\ root' = insert_root(res)
    /\ ref' = [ref EXCEPT ![key] = Some(val)]
    /\ pc' = "idle"
    /\ key' = 0 /\ val' = 0
    /\ h' = None
    /\ cur' = NoFrame
    /\ did' = NoFix
    /\ UNCHANGED <<stack, res, fault, Extra7>>

Next ==
    \/ \E k \in Keys, v \in Vals : Insert(k, v)
    \/ VisitNone
    \/ VisitSome
    \/ FixUp
    \/ Return
    \/ Finish

Spec == Init /\ [][Next]_vars

\* ------------------------------------------------------------ insert, as one call
\* _insert as the recursive function it is.  [panic, node]: node is the
\* Option returned, panic says the call panicked instead of returning
RECURSIVE _insert(_, _, _)
_insert(hh, k, v) ==
    IF hh = None
    THEN [panic |-> FALSE, node |-> Some(Node_new(k, v))]
    ELSE LET e == _insert_entry(unwrap(hh))
             node == e.node
             c == cmp(node.key, k)
             sub == IF c = "Less" THEN _insert(node.right, k, v)
                    ELSE _insert(node.left, k, v)
             n1 == IF c = "Equal" THEN [node EXCEPT !.val = v]
                   ELSE IF c = "Less" THEN [node EXCEPT !.right = sub.node]
                   ELSE [node EXCEPT !.left = sub.node]
             f == _insert_fixup(n1)
         IN IF e.panic THEN [panic |-> TRUE, node |-> None]
            ELSE IF c # "Equal" /\ sub.panic THEN [panic |-> TRUE, node |-> None]
            ELSE IF f.panic THEN [panic |-> TRUE, node |-> None]
            ELSE [panic |-> FALSE, node |-> Some(f.node)]

\* insert on the tree whose root is t.  [panic, root]: a panic unwinds before
\* self.root is assigned
insert(t, k, v) ==
    LET r == _insert(t, k, v)
    IN IF r.panic THEN [panic |-> TRUE, root |-> t]
       ELSE [panic |-> FALSE, root |-> insert_root(r.node)]

\* ------------------------------------------------------------ two orders
Main0 ==
    /\ root = None
    /\ pc = "idle"
    /\ key = 0 /\ val = 0
    /\ h = None
    /\ stack = <<>>
    /\ cur = NoFrame
    /\ res = None
    /\ did = NoFix
    /\ ref = [k \in Keys |-> None]

Init7 ==
    /\ Main0
    /\ fault = FALSE
    /\ pairs \in {S \in SUBSET Pairs7 : Cardinality(S) <= MaxPairs}
    /\ remA = pairs
    /\ remB = pairs
    /\ rootA = None
    /\ rootB = None

MainVars == <<root, pc, key, val, h, stack, cur, res, did, ref>>

\* the next pair of the first order is inserted into the first tree
InsertA ==
    /\ ~fault
    /\ \E p \in remA :
         LET r == insert(rootA, p[1], p[2])
         IN IF r.panic
            THEN fault' = TRUE /\ UNCHANGED <<rootA, remA>>
            ELSE rootA' = r.root /\ remA' = remA \ {p} /\ UNCHANGED fault
    /\ UNCHANGED <<MainVars, pairs, remB, rootB>>

\* the next pair of the second order is inserted into the second tree, built
\* once the first tree is complete
InsertB ==
    /\ ~fault
    /\ remA = {}
    /\ \E p \in remB :
         LET r == insert(rootB, p[1], p[2])
         IN IF r.panic
            THEN fault' = TRUE /\ UNCHANGED <<rootB, remB>>
            ELSE rootB' = r.root /\ remB' = remB \ {p} /\ UNCHANGED fault
    /\ UNCHANGED <<MainVars, pairs, remA, rootA>>

Next7 == InsertA \/ InsertB

Spec7 == Init7 /\ [][Next7]_vars

\* ------------------------------------------------------------ tree measures
RECURSIVE NodesOf(_)
NodesOf(t) ==
    IF t = None THEN {}
    ELSE {unwrap(t)} \cup NodesOf(unwrap(t).left) \cup NodesOf(unwrap(t).right)

KeysOf(t) == {n.key : n \in NodesOf(t)}

RECURSIVE InOrder(_)
InOrder(t) ==
    IF t = None THEN <<>>
    ELSE InOrder(unwrap(t).left) \o <<unwrap(t).key>> \o InOrder(unwrap(t).right)

StrictlyIncreasing(s) == \A i \in 1..(Len(s) - 1) : s[i] < s[i + 1]

IsRed(o) == o # None /\ unwrap(o).color

\* the numbers of black nodes met on the paths from t down to an empty position
RECURSIVE BlackHeights(_)
BlackHeights(t) ==
    IF t = None THEN {0}
    ELSE LET own == IF unwrap(t).color THEN 0 ELSE 1
         IN {b + own : b \in BlackHeights(unwrap(t).left) \cup BlackHeights(unwrap(t).right)}

\* t with the value v at every node whose key is k, and nothing else changed
RECURSIVE with_val(_, _, _)
with_val(t, k, v) ==
    IF t = None THEN None
    ELSE LET n == unwrap(t)
         IN Some([key |-> n.key,
                  val |-> IF n.key = k THEN v ELSE n.val,
                  color |-> n.color,
                  left |-> with_val(n.left, k, v),
                  right |-> with_val(n.right, k, v)])

Idle == pc = "idle"
Returning == pc = "ret" /\ stack = <<>>

\* the stepwise run of insert returns what the recursive function returns
StepwiseAgrees ==
    Returning => insert(root, key, val) = [panic |-> FALSE, root |-> insert_root(res)]

\* ------------------------------------------------------------ claims
\* C1: search agrees with the reference map of the inserts made so far: a key
\* inserted at least once is found with the value of its most recent insert,
\* a key never inserted is not found.
C1_SearchAgreesWithMap ==
    \A k \in Probes : search(root, k) = IF k \in Keys THEN ref[k] ELSE None

C1_Witness ==
    /\ Idle
    /\ \E k1, k2, k3 \in Keys :
         /\ ref[k1] = Some(1) /\ ref[k2] = Some(2) /\ ref[k3] = None
         /\ search(root, k1) = Some(1) /\ search(root, k2) = Some(2)
         /\ search(root, k3) = None
    /\ Cardinality(KeysOf(root)) >= 3

\* C2: the tree is a binary search tree: at every node the keys of the left
\* subtree are smaller and those of the right subtree greater than the node's
\* key, and the in-order traversal is strictly increasing.
C2_BinarySearchTree ==
    /\ \A n \in NodesOf(root) :
         /\ \A k \in KeysOf(n.left) : k < n.key
         /\ \A k \in KeysOf(n.right) : k > n.key
    /\ StrictlyIncreasing(InOrder(root))

C2_Witness ==
    /\ Idle
    /\ Len(InOrder(root)) >= 4
    /\ \E n \in NodesOf(root) : n.left # None /\ n.right # None /\ n.color

\* C3: every path from the root down to an empty position meets the same
\* number of black nodes.
C3_BlackBalanced == Cardinality(BlackHeights(root)) = 1

C3_Witness ==
    /\ Idle
    /\ BlackHeights(root) = {2}
    /\ \E n \in NodesOf(root) : n.color

\* C4: no right child is RED, and no RED node has a RED child.
C4_LeftLeaningNoDoubleRed ==
    \A n \in NodesOf(root) :
        /\ ~IsRed(n.right)
        /\ n.color => ~IsRed(n.left) /\ ~IsRed(n.right)

C4_Witness ==
    /\ Idle
    /\ Cardinality(NodesOf(root)) >= 4
    /\ \E n \in NodesOf(root) : IsRed(n.left) /\ n.right # None

\* C5: once an insert has returned, the tree is non-empty and its root is
\* BLACK, whatever color _insert returned the root with.
C5_RootBlack ==
    /\ (\E k \in Keys : ref[k] # None) => root # None
    /\ root # None => ~unwrap(root).color

C5_Witness ==
    /\ Idle
    /\ IsRed(res)
    /\ root # None /\ ~unwrap(root).color
    /\ Cardinality(NodesOf(root)) >= 3

\* C6: an insert of a key the tree holds changes the value at that key's
\* node and nothing else: no fix-up of the insert rotates or flips, no node is
\* flipped on entry, and the tree assigned is the old tree with that value.
C6_OverwriteOnlyValue ==
    (pc \in {"down", "fix", "ret"} /\ key \in KeysOf(root)) =>
        /\ did = NoFix
        /\ (pc = "down" /\ h # None) => ~_insert_entry(unwrap(h)).flip
        /\ Returning => insert_root(res) = with_val(root, key, val)

C6_Witness ==
    /\ Returning
    /\ key \in KeysOf(root)
    /\ unwrap(root).key # key
    /\ search(root, key) # Some(val)
    /\ Cardinality(NodesOf(root)) >= 4

\* C7 as stated: whatever set of pairs is inserted in two orders, the two
\* trees answer every search alike.
C7_Original ==
    (remA = {} /\ remB = {}) =>
        \A k \in Probes7 : search(rootA, k) = search(rootB, k)

DistinctKeys(S) == \A p, q \in S : p[1] = q[1] => p = q

\* C7, amended: for a set of pairs with pairwise distinct keys, the two trees
\* answer every search alike, with the value the set pairs with the key.
C7_OrderIndependent ==
    (remA = {} /\ remB = {} /\ DistinctKeys(pairs)) =>
        \A k \in Probes7 :
            /\ search(rootA, k) = search(rootB, k)
            /\ \A v \in 1..MaxVal7 : (<<k, v>> \in pairs) <=> (search(rootA, k) = Some(v))

C7_Witness ==
    /\ remA = {} /\ remB = {}
    /\ DistinctKeys(pairs)
    /\ Cardinality(pairs) >= 4
    /\ rootA # rootB
    /\ \A k \in Probes7 : search(rootA, k) = search(rootB, k)

\* C8: no insert panics: _flip_color runs only on a node with both children,
\* _rotate_left and _rotate_right only when the child they promote exists.
C8_NoPanic ==
    /\ ~fault
    /\ pc # "panicked"
    /\ (pc = "down" /\ h # None) => ~_insert_entry(unwrap(h)).panic
    /\ pc = "fix" => ~_insert_fixup(cur).panic

C8_Witness ==
    /\ pc = "ret"
    /\ ~fault
    /\ did.right /\ did.flip
    /\ stack # <<>>

\* the insert of k into t makes rotate-left and rotate-right both fire in the
\* fix-up of one node
RECURSIVE rotates_both(_, _, _)
rotates_both(t, k, v) ==
    IF t = None THEN FALSE
    ELSE LET node == _insert_entry(unwrap(t)).node
             c == cmp(node.key, k)
             n1 == IF c = "Equal" THEN [node EXCEPT !.val = v]
                   ELSE IF c = "Less"
                        THEN [node EXCEPT !.right = _insert(node.right, k, v).node]
                        ELSE [node EXCEPT !.left = _insert(node.left, k, v).node]
             f == _insert_fixup(n1)
         IN \/ f.left /\ f.right
            \/ c = "Less" /\ rotates_both(node.right, k, v)
            \/ c = "Greater" /\ rotates_both(node.left, k, v)

\* the trees that at most n further inserts build from the tree t0
RECURSIVE TreesFrom(_, _)
TreesFrom(t0, n) ==
    IF n = 0 THEN {t0}
    ELSE LET T == TreesFrom(t0, n - 1)
         IN T \cup {insert(t, k, v).root : t \in T, k \in Keys, v \in Vals}

\* C9 as stated: starting from the empty tree, some insert into a tree built
\* by inserts makes rotate-left and rotate-right both fire in the fix-up of
\* one node.
C9_Original ==
    (Idle /\ root = None) =>
        \E t \in TreesFrom(root, MaxKey) :
            \E k \in Keys, v \in Vals : rotates_both(t, k, v)

\* C9, amended: rotate-left and rotate-right never both fire in the fix-up of
\* one node; the chain of two red left links that a rotate-left creates is
\* resolved by the rotate-right of the parent's fix-up.
C9_NeverBothAtOneNode == ~(did.left /\ did.right)

C9_Witness ==
    /\ pc = "fix"
    /\ did.left /\ ~did.right
    /\ cur.left = res
    /\ IsRed(res) /\ IsRed(unwrap(res).left)
    /\ ~_insert_fixup(cur).left
    /\ _insert_fixup(cur).right

\* C10: no node of the tree has two RED children, and the flip on entry fires
\* at no node an insert visits.
C10_NoFlipOnEntry ==
    /\ \A n \in NodesOf(root) : ~_should_flip_color(n)
    /\ (pc = "down" /\ h # None) => ~_insert_entry(unwrap(h)).flip

C10_Witness ==
    /\ pc = "ret"
    /\ did.flip
    /\ Len(stack) >= 1
    /\ ~did.right

====
